---- MODULE Spec2Model ----
(***************************************************************************)
(* Model of the Flown flight-search front-end: the FlightSearchCard form   *)
(* (frontend/src/components/FlightSearchCard.tsx) and the fetch wrapper    *)
(* searchFlights (frontend/src/services/flightApi.ts).                     *)
(*                                                                         *)
(* React semantics: every event handler is a closure over the state of the *)
(* render it was created in.  A setState call schedules the new value; the *)
(* handler keeps reading the old one.  Each handler is therefore one       *)
(* atomic action whose reads are unprimed and whose set-calls are primed.  *)
(* Discrete events (click, change) are flushed before the next event, so   *)
(* every handler runs on the committed state.                              *)
(*                                                                         *)
(* JS strings that the code inspects character by character (the trip      *)
(* nights field, read by parseInt) are tuples of one-character strings;    *)
(* '' is << >>.  Dates are << >> ('') or <<year, month, day>> for the ISO  *)
(* text YYYY-MM-DD an <input type="date"> delivers.  A nullable value is   *)
(* Null or <<v>>.  The Korean message texts are written in ASCII.          *)
(*                                                                         *)
(* FlightResults (frontend/src/components/FlightResults.tsx) is a pure     *)
(* view of its result prop: result is the prop, rendered what it shows.    *)
(* No parent that connects the form to the view is part of the sources, so *)
(* the two are specified separately.                                       *)
(***************************************************************************)
EXTENDS Integers, Sequences, FiniteSets, TLC

VARIABLES fromAirport, toAirport, startDate, endDate, tripNights,
          isLoading, error, pending, delivered, last,
          result, rendered

vars == <<fromAirport, toAirport, startDate, endDate, tripNights,
          isLoading, error, pending, delivered, last, result, rendered>>

\* The state of the FlightSearchCard form, and that of a FlightResults view.
formVars == <<fromAirport, toAirport, startDate, endDate, tripNights,
              isLoading, error, pending, delivered, last>>

resultVars == <<result, rendered>>

\* ------------------------------------------------------------------ bounds
\* Largest number of fetches the model lets be in flight at once.
MaxInFlight == 2

\* ------------------------------------------------------------ value domains
Null == << >>

Some(v) == <<v>>

\* Airports the popovers offer (data/airports, codes only).
FromAirports == {"ICN"}

ToAirports == {"NRT", "KIX"}

\* Values an <input type="date"> can deliver: '' or a valid date.  The
\* end field's min attribute only flags validity; a typed date below it
\* still arrives in onChange.
DateInputs == {Null, <<2025, 1, 31>>, <<2025, 2, 2>>}

\* Values an <input type="number"> can deliver: '' (also for any text that
\* is not a valid floating-point number) or a valid floating-point number.
\* The min/max attributes only flag validity; they do not stop typing.
TripNightsInputs ==
    { Null, <<"2">>, <<"3">>, <<"-", "1">>, <<"-", "0", ".", "5">>,
      <<"2", ".", "5">> }

\* ---------------------------------------------------------------- messages
MSG_FILL_ALL == "Please fill in all fields."

MSG_FALLBACK == "An error occurred during the search."

MaxNightsMessage(maxNights) ==
    "The trip can be at most " \o ToString(maxNights) \o " nights."

\* Message of the TypeError a rejected fetch carries (browser-defined text).
TransportMessages == {"Failed to fetch", "Load failed"}

\* Message of the TypeError thrown by reading .detail of a JSON null body.
MSG_NULL_DETAIL == "Cannot read properties of null (reading 'detail')"

\* Message of the SyntaxError response.json() rejects with.
MSG_JSON_SYNTAX == "Unexpected token < in JSON at position 0"

\* ------------------------------------------------------- JS built-in models
IsDigit(c) == c \in {"0", "1", "2", "3", "4", "5", "6", "7", "8", "9"}

DigitVal(c) ==
    CASE c = "0" -> 0 [] c = "1" -> 1 [] c = "2" -> 2 [] c = "3" -> 3
      [] c = "4" -> 4 [] c = "5" -> 5 [] c = "6" -> 6 [] c = "7" -> 7
      [] c = "8" -> 8 [] c = "9" -> 9

DigitChar(d) ==
    CASE d = 0 -> "0" [] d = 1 -> "1" [] d = 2 -> "2" [] d = 3 -> "3"
      [] d = 4 -> "4" [] d = 5 -> "5" [] d = 6 -> "6" [] d = 7 -> "7"
      [] d = 8 -> "8" [] d = 9 -> "9"

RECURSIVE ParseDigits(_, _, _)
\* Value of the run of digits of s that starts at position i.
ParseDigits(s, i, acc) ==
    IF i > Len(s) \/ ~IsDigit(s[i]) THEN acc
    ELSE ParseDigits(s, i + 1, acc * 10 + DigitVal(s[i]))

NaN == [nan |-> TRUE, val |-> 0]

\* parseInt(s): optional sign, then the longest run of digits; NaN when
\* there is none.  Anything after the digits ('.5', 'e2') is ignored.
\* -0 is 0: it is neither < 0 nor > n, and JSON.stringify(-0) is "0".
parseInt(s) ==
    LET signed == Len(s) > 0 /\ s[1] \in {"-", "+"}
        first  == IF signed THEN 2 ELSE 1
        mag    == ParseDigits(s, first, 0)
    IN  IF first > Len(s) \/ ~IsDigit(s[first]) THEN NaN
        ELSE [nan |-> FALSE, val |-> IF s[1] = "-" THEN 0 - mag ELSE mag]

RECURSIVE toString(_)
\* Number.prototype.toString of a non-negative integer.
toString(n) ==
    IF n < 10 THEN <<DigitChar(n)>>
    ELSE Append(toString(n \div 10), DigitChar(n % 10))

MS_PER_DAY == 1000 * 60 * 60 * 24

\* Days from 1970-01-01 to the civil date y-m-d (proleptic Gregorian).
DaysFromCivil(y, m, d) ==
    LET yy  == IF m <= 2 THEN y - 1 ELSE y
        era == yy \div 400
        yoe == yy - era * 400
        mp  == (m + 9) % 12
        doy == (153 * mp + 2) \div 5 + d - 1
        doe == yoe * 365 + yoe \div 4 - yoe \div 100 + doy
    IN  era * 146097 + doe - 719468

\* new Date("YYYY-MM-DD"): a date-only ISO text is UTC midnight, so
\* getTime() is DayNumber(date) * MS_PER_DAY exactly.
DayNumber(date) == DaysFromCivil(date[1], date[2], date[3])

\* end.getTime() - start.getTime().  The epoch values themselves exceed the
\* checker's 32-bit integers, so the difference is taken on the day numbers
\* before scaling to milliseconds; the value is the same.
TimeDiff(end, start) == (DayNumber(end) - DayNumber(start)) * MS_PER_DAY

Max(a, b) == IF a >= b THEN a ELSE b

\* Math.ceil(a / b) for b > 0.
CeilDiv(a, b) == 0 - ((0 - a) \div b)

\* The calendar: leap years, month lengths, the day after and before.
IsLeapYear(y) == (y % 4 = 0 /\ y % 100 # 0) \/ y % 400 = 0

DaysInMonth(y, m) ==
    IF m = 2 THEN (IF IsLeapYear(y) THEN 29 ELSE 28)
    ELSE IF m \in {4, 6, 9, 11} THEN 30 ELSE 31

NextDay(date) ==
    IF date[3] < DaysInMonth(date[1], date[2]) THEN <<date[1], date[2], date[3] + 1>>
    ELSE IF date[2] < 12 THEN <<date[1], date[2] + 1, 1>>
    ELSE <<date[1] + 1, 1, 1>>

PrevDay(date) ==
    IF date[3] > 1 THEN <<date[1], date[2], date[3] - 1>>
    ELSE IF date[2] > 1 THEN <<date[1], date[2] - 1, DaysInMonth(date[1], date[2] - 1)>>
    ELSE <<date[1] - 1, 12, 31>>

\* ------------------------------------------------------- FlightSearchCard
\* Variant: the result is not clamped at 0.
calculateMaxNightsOf_NoClamp(start, end) ==
    IF start = Null \/ end = Null THEN 0
    ELSE TimeDiff(end, start) \div MS_PER_DAY

calculateMaxNightsOf(start, end) ==
    IF start = Null \/ end = Null THEN 0
    ELSE LET diffTime == TimeDiff(end, start)
             diffDays == diffTime \div MS_PER_DAY
         IN  Max(0, diffDays)

\* The closure of the current render: reads the committed dates.
calculateMaxNights == calculateMaxNightsOf(startDate, endDate)

\* nights > maxNights with nights a parseInt result (NaN > n is false).
Exceeds(nights, maxNights) == ~nights.nan /\ nights.val > maxNights

\* ----------------------------------------------------------- flightApi.ts
\* How a fetch settles.  net: "reject" (fetch itself rejects, no response),
\* "ok" (2xx) or "notok" (any other status).  json: how the response body
\* parses: "unparsable", "null" (the JSON text null) or "object".  detail:
\* the object's detail member, Null when it has none.
Rejected(msg) ==
    [net |-> "reject", msg |-> msg, json |-> "none", detail |-> Null]

Response(net, json, detail) ==
    [net |-> net, msg |-> "", json |-> json, detail |-> detail]

NoOutcome == [net |-> "none", msg |-> "", json |-> "none", detail |-> Null]

\* detail strings a server may answer with.
Details == {"no route found", ""}

NotOkBodies ==
    { Response("notok", "unparsable", Null), Response("notok", "null", Null),
      Response("notok", "object", Null) }
    \cup { Response("notok", "object", Some(d)) : d \in Details }

OkBodies ==
    { Response("ok", "unparsable", Null), Response("ok", "object", Null) }

Threw(message) == [threw |-> TRUE, message |-> message]

Returned == [threw |-> FALSE, message |-> ""]

\* Variant: the detail is never used.
DetailOrFallback_AlwaysFallback(detail) == MSG_FALLBACK

\* error.detail || fallback
DetailOrFallback(detail) ==
    IF detail = Null \/ detail[1] = "" THEN MSG_FALLBACK ELSE detail[1]

\* The part of searchFlights that runs when !response.ok.
ThrowNotOk(outcome) ==
    IF outcome.json = "unparsable" THEN Threw(DetailOrFallback(Some(MSG_FALLBACK)))
    ELSE IF outcome.json = "null" THEN Threw(MSG_NULL_DETAIL)
    ELSE Threw(DetailOrFallback(outcome.detail))

searchFlights(outcome) ==
    IF outcome.net = "reject" THEN Threw(outcome.msg)
    ELSE IF outcome.net = "notok" THEN ThrowNotOk(outcome)
    ELSE IF outcome.json = "unparsable" THEN Threw(MSG_JSON_SYNTAX)
    ELSE Returned

\* ------------------------------------------------- FlightSearchCard, search
AllFieldsSet ==
    fromAirport # Null /\ toAirport # Null /\ startDate # Null /\ endDate # Null

\* Variant: the Button ignores the pending flag.
SubmitDisabled_IgnoresLoading == ~AllFieldsSet

\* The disabled attribute of the submit Button.
SubmitDisabled == isLoading \/ ~AllFieldsSet

\* The fetch handleSearch starts: the request body and, captured by the
\* closure for the later onSearchResult call, the search parameters.
NewFetch ==
    [ request |->
        [ departure   |-> fromAirport[1],
          destination |-> toAirport[1],
          start_date  |-> startDate,
          end_date    |-> endDate,
          trip_nights |-> IF tripNights # Null
                          THEN Some(parseInt(tripNights).val) ELSE Null ],
      params |->
        [ departure   |-> fromAirport[1],
          destination |-> toAirport[1],
          startDate   |-> startDate,
          endDate     |-> endDate ] ]

\* Variant: the pending flag is not raised.
handleSearch_NoLoadingFlag ==
    IF ~AllFieldsSet
    THEN /\ error' = Some(MSG_FILL_ALL)
         /\ UNCHANGED <<isLoading, pending>>
    ELSE /\ isLoading' = isLoading
         /\ error' = Null
         /\ pending' = Append(pending, NewFetch)

\* handleSearch up to its await.
handleSearch ==
    IF ~AllFieldsSet
    THEN /\ error' = Some(MSG_FILL_ALL)
         /\ UNCHANGED <<isLoading, pending>>
    ELSE /\ isLoading' = TRUE
         /\ error' = Null
         /\ pending' = Append(pending, NewFetch)

RemoveAt(seq, i) == SubSeq(seq, 1, i - 1) \o SubSeq(seq, i + 1, Len(seq))

\* The record of a settlement: its outcome and the number of
\* onSearchResult calls it made.
Settled(outcome, calls) ==
    [op |-> "settle", input |-> Null, outcome |-> outcome, fetches |-> 0,
     calls |-> calls]

\* Variant: the pending flag is cleared after the try block instead of in
\* a finally, so a thrown error skips it.
handleSearchSettle_NoFinally(i, outcome) ==
    LET settled == searchFlights(outcome)
    IN  /\ pending' = RemoveAt(pending, i)
        /\ IF settled.threw
           THEN /\ error' = Some(settled.message)
                /\ delivered' = delivered
                /\ last' = Settled(outcome, 0)
                /\ isLoading' = isLoading
           ELSE /\ delivered' = Some(pending[i].params)
                /\ last' = Settled(outcome, 1)
                /\ error' = error
                /\ isLoading' = FALSE
        /\ UNCHANGED <<fromAirport, toAirport, startDate, endDate, tripNights>>

\* Variant: the parameters handed over are read from the form as it is when
\* the response arrives.
handleSearchSettle_ReadsCurrentFields(i, outcome) ==
    LET settled == searchFlights(outcome)
    IN  /\ pending' = RemoveAt(pending, i)
        /\ IF settled.threw
           THEN /\ error' = Some(settled.message)
                /\ delivered' = delivered
                /\ last' = Settled(outcome, 0)
           ELSE /\ delivered' = Some([ departure   |-> fromAirport[1],
                                       destination |-> toAirport[1],
                                       startDate   |-> startDate,
                                       endDate     |-> endDate ])
                /\ last' = Settled(outcome, 1)
                /\ error' = error
        /\ isLoading' = FALSE
        /\ UNCHANGED <<fromAirport, toAirport, startDate, endDate, tripNights>>

\* handleSearch from its await on, for the fetch pending[i] settling as
\* outcome: the onSearchResult call, the catch and the finally.
handleSearchSettle(i, outcome) ==
    LET settled == searchFlights(outcome)
    IN  /\ pending' = RemoveAt(pending, i)
        /\ IF settled.threw
           THEN /\ error' = Some(settled.message)
                /\ delivered' = delivered
                /\ last' = Settled(outcome, 0)
           ELSE /\ delivered' = Some(pending[i].params)
                /\ last' = Settled(outcome, 1)
                /\ error' = error
        /\ isLoading' = FALSE
        /\ UNCHANGED <<fromAirport, toAirport, startDate, endDate, tripNights>>

\* ----------------------------------------------------------- FlightResults
\* Largest number of segments of a response.
MaxSegments == 3

\* A FlightSegment, by its date; its other members are shown as they are.
SegmentDates == {<<2025, 1, 15>>, <<2025, 1, 20>>, <<2025, 2, 1>>}

Segments == { [date |-> d] : d \in SegmentDates }

SegmentLists == UNION { [1..n -> Segments] : n \in 0..MaxSegments }

Costs == {0, 164000, 200000}

\* The SearchResponse objects a view is given.  Nothing is validated on the
\* client, so the costs and the flag vary independently.
Responses ==
    { [ total_cost |-> t, segments |-> sg, route_pattern |-> "ICN - KIX - ICN",
        cheaper_than_direct |-> c, direct_cost |-> d ] :
        t \in Costs, sg \in SegmentLists, c \in BOOLEAN,
        d \in {Null} \cup { Some(n) : n \in Costs } }

NoResponse ==
    [ total_cost |-> 0, segments |-> << >>, route_pattern |-> "",
      cheaper_than_direct |-> FALSE, direct_cost |-> Null ]

RECURSIVE GroupDigits(_)
\* A comma before every group of three digits, counted from the right.
GroupDigits(digits) ==
    IF Len(digits) <= 3 THEN digits
    ELSE GroupDigits(SubSeq(digits, 1, Len(digits) - 3)) \o <<",">>
           \o SubSeq(digits, Len(digits) - 2, Len(digits))

\* new Intl.NumberFormat('ko-KR').format(price) for an integer price.
formatPrice(price) ==
    IF price < 0 THEN <<"-">> \o GroupDigits(toString(0 - price))
    ELSE GroupDigits(toString(price))

\* toLocaleDateString of new Date(dateString): the date-only text is UTC
\* midnight and the parts shown are those of the local day, which is the
\* day before in a zone west of UTC.
formatDate(dateString, west) ==
    LET local == IF west THEN PrevDay(dateString) ELSE dateString
    IN  [year |-> local[1], month |-> local[2], day |-> local[3]]

\* Variant: the number of days is not one more than the nights.
TripSpan_DaysNotIncremented(segments) ==
    IF Len(segments) > 0
    THEN LET daysDiff == CeilDiv(TimeDiff(segments[Len(segments)].date,
                                          segments[1].date), MS_PER_DAY)
         IN  Some([nights |-> daysDiff, days |-> daysDiff])
    ELSE Null

\* The trip span block: Null when it is not rendered.
TripSpan(segments) ==
    IF Len(segments) > 0
    THEN LET firstDate == segments[1].date
             lastDate  == segments[Len(segments)].date
             daysDiff  == CeilDiv(TimeDiff(lastDate, firstDate), MS_PER_DAY)
         IN  Some([nights |-> daysDiff, days |-> daysDiff + 1])
    ELSE Null

\* What a JSX expression a && b && <block/> leaves in the page: nothing for
\* false and undefined, the text of a number, or the block.
Nothing == [kind |-> "nothing", text |-> << >>]

NumberText(n) == [kind |-> "text", text |-> toString(n)]

Block(text) == [kind |-> "block", text |-> text]

\* Variant: the flag is not consulted.
SavingsBlock_IgnoresFlag(response) ==
    IF response.direct_cost = Null THEN Nothing
    ELSE IF response.direct_cost[1] = 0 THEN NumberText(0)
    ELSE Block(formatPrice(response.direct_cost[1] - response.total_cost))

\* result.cheaper_than_direct && result.direct_cost && (savings block)
SavingsBlock(response) ==
    IF ~response.cheaper_than_direct THEN Nothing
    ELSE IF response.direct_cost = Null THEN Nothing
    ELSE IF response.direct_cost[1] = 0 THEN NumberText(0)
    ELSE Block(formatPrice(response.direct_cost[1] - response.total_cost))

\* The dates block: Null when it is not rendered.
DatesBlock(segments, west) ==
    IF Len(segments) > 0
    THEN Some([ departure |-> formatDate(segments[1].date, west),
                return    |-> formatDate(segments[Len(segments)].date, west) ])
    ELSE Null

\* What FlightResults shows for a response, in a zone west of UTC or not.
FlightResults(response, west) ==
    [ route    |-> response.route_pattern,
      span     |-> TripSpan(response.segments),
      dates    |-> DatesBlock(response.segments, west),
      price    |-> formatPrice(response.total_cost),
      savings  |-> SavingsBlock(response),
      segments |-> response.segments ]

Init ==
    /\ fromAirport = Null
    /\ toAirport = Null
    /\ startDate = Null
    /\ endDate = Null
    /\ tripNights = Null
    /\ isLoading = FALSE
    /\ error = Null
    /\ pending = << >>
    /\ delivered = Null
    /\ last = [op |-> "init", input |-> Null, outcome |-> NoOutcome, fetches |-> 0, calls |-> 0]
    /\ result = NoResponse
    /\ rendered = Null

SelectFromAirport(airport) ==
    /\ fromAirport' = Some(airport)
    /\ last' = [op |-> "from", input |-> Null, outcome |-> NoOutcome, fetches |-> 0, calls |-> 0]
    /\ UNCHANGED <<toAirport, startDate, endDate, tripNights, isLoading,
                   error, pending, delivered>>
    /\ UNCHANGED resultVars

SelectToAirport(airport) ==
    /\ toAirport' = Some(airport)
    /\ last' = [op |-> "to", input |-> Null, outcome |-> NoOutcome, fetches |-> 0, calls |-> 0]
    /\ UNCHANGED <<fromAirport, startDate, endDate, tripNights, isLoading,
                   error, pending, delivered>>
    /\ UNCHANGED resultVars

handleStartDateChange(value) ==
    /\ startDate' = value
    /\ tripNights' =
         IF value # Null /\ endDate # Null /\ tripNights # Null
         THEN LET maxNights == calculateMaxNights
                  nights    == parseInt(tripNights)
              IN  IF Exceeds(nights, maxNights) THEN toString(maxNights)
                  ELSE tripNights
         ELSE tripNights
    /\ last' = [op |-> "startDate", input |-> Null, outcome |-> NoOutcome, fetches |-> 0, calls |-> 0]
    /\ UNCHANGED <<fromAirport, toAirport, endDate, isLoading, error,
                   pending, delivered>>
    /\ UNCHANGED resultVars

handleEndDateChange(value) ==
    /\ endDate' = value
    /\ tripNights' =
         IF startDate # Null /\ value # Null /\ tripNights # Null
         THEN LET maxNights == calculateMaxNights
                  nights    == parseInt(tripNights)
              IN  IF Exceeds(nights, maxNights) THEN toString(maxNights)
                  ELSE tripNights
         ELSE tripNights
    /\ last' = [op |-> "endDate", input |-> Null, outcome |-> NoOutcome, fetches |-> 0, calls |-> 0]
    /\ UNCHANGED <<fromAirport, toAirport, startDate, isLoading, error,
                   pending, delivered>>
    /\ UNCHANGED resultVars

handleTripNightsChange(value) ==
    LET nights    == parseInt(value)
        maxNights == calculateMaxNights
    IN  /\ IF nights.nan \/ nights.val < 0
           THEN /\ tripNights' = Null
                /\ error' = error
           ELSE IF maxNights > 0 /\ nights.val > maxNights
           THEN /\ error' = Some(MaxNightsMessage(maxNights))
                /\ tripNights' = toString(maxNights)
           ELSE /\ error' = Null
                /\ tripNights' = value
        /\ last' = [op |-> "tripNights", input |-> value, outcome |-> NoOutcome, fetches |-> 0, calls |-> 0]
        /\ UNCHANGED <<fromAirport, toAirport, startDate, endDate,
                       isLoading, pending, delivered>>
        /\ UNCHANGED resultVars

\* A click on the submit Button: nothing when the Button is disabled.
ClickSubmit ==
    /\ IF SubmitDisabled
       THEN UNCHANGED <<isLoading, error, pending>>
       ELSE Len(pending) < MaxInFlight /\ handleSearch
    /\ last' = [op |-> "click", input |-> Null, outcome |-> NoOutcome,
                fetches |-> Len(pending') - Len(pending), calls |-> 0]
    /\ UNCHANGED <<fromAirport, toAirport, startDate, endDate, tripNights,
                   delivered>>
    /\ UNCHANGED resultVars

FetchRejects(i, msg) ==
    /\ handleSearchSettle(i, Rejected(msg))
    /\ UNCHANGED resultVars

RespondNotOk(i, body) ==
    /\ handleSearchSettle(i, body)
    /\ UNCHANGED resultVars

RespondOk(i, body) ==
    /\ handleSearchSettle(i, body)
    /\ UNCHANGED resultVars

Next ==
    \/ \E a \in FromAirports : SelectFromAirport(a)
    \/ \E a \in ToAirports : SelectToAirport(a)
    \/ \E v \in DateInputs : handleStartDateChange(v)
    \/ \E v \in DateInputs : handleEndDateChange(v)
    \/ \E v \in TripNightsInputs : handleTripNightsChange(v)
    \/ ClickSubmit
    \/ \E i \in 1..Len(pending), m \in TransportMessages : FetchRejects(i, m)
    \/ \E i \in 1..Len(pending), b \in NotOkBodies : RespondNotOk(i, b)
    \/ \E i \in 1..Len(pending), b \in OkBodies : RespondOk(i, b)

Spec == Init /\ [][Next]_vars

\* --------------------------------------------- calculateMaxNights on its own
\* Dates for exercising calculateMaxNights: around the leap day of 2024
\* and two weeks on.
CalcDateInputs ==
    { Null, <<2024, 2, 27>>, <<2024, 2, 28>>, <<2024, 2, 29>>, <<2024, 3, 1>>,
      <<2024, 3, 2>>, <<2024, 3, 15>> }

\* The form with only its date and trip-nights fields edited.
NextMaxNights ==
    \/ \E v \in CalcDateInputs : handleStartDateChange(v)
    \/ \E v \in CalcDateInputs : handleEndDateChange(v)
    \/ \E v \in TripNightsInputs : handleTripNightsChange(v)

SpecMaxNights == Init /\ [][NextMaxNights]_vars

\* ------------------------------------------------- FlightResults on its own
InitResults ==
    /\ fromAirport = Null
    /\ toAirport = Null
    /\ startDate = Null
    /\ endDate = Null
    /\ tripNights = Null
    /\ isLoading = FALSE
    /\ error = Null
    /\ pending = << >>
    /\ delivered = Null
    /\ last = [op |-> "init", input |-> Null, outcome |-> NoOutcome, fetches |-> 0, calls |-> 0]
    /\ result \in Responses
    /\ rendered = Null

\* The view renders its result prop.
Render(west) ==
    /\ rendered' = Some(FlightResults(result, west))
    /\ UNCHANGED result
    /\ UNCHANGED formVars

NextResults == \E west \in BOOLEAN : Render(west)

SpecResults == InitResults /\ [][NextResults]_vars

\* ------------------------------------------------------------------ claims
\* C1: for one form instance at most one search request is outstanding at
\* any time; while one is, isLoading is true and the submit Button is
\* disabled.
C1_OneOutstanding ==
    /\ Len(pending) <= 1
    /\ Len(pending) = 1 => isLoading /\ SubmitDisabled

\* A request is outstanding that was started after an earlier search had
\* already completed and delivered its result.
C1_Witness ==
    /\ last.op = "click" /\ last.fetches = 1
    /\ delivered # Null
    /\ Len(pending) = 1

\* C2 as stated: a submit attempt issues no network call if and only if one
\* of from-airport, to-airport, start date, end date is unset.
C2_BlockedIffUnset ==
    [][ClickSubmit => ((pending' = pending) <=> ~AllFieldsSet)]_vars

\* C2 as amended: a submit attempt issues no network call if and only if
\* one of the four fields is unset or a request is already pending; in every
\* other form state it issues exactly one.
C2_BlockedIffUnsetOrPending ==
    [][ClickSubmit =>
         /\ (pending' = pending) <=> (~AllFieldsSet \/ isLoading)
         /\ (pending' # pending) => Len(pending') = Len(pending) + 1]_vars

\* A submit attempt was made with all four fields set while a request was
\* pending, and it issued nothing.
C2_Witness ==
    /\ last.op = "click" /\ last.fetches = 0
    /\ AllFieldsSet /\ isLoading

\* C3: every search request that completes (2xx, non-2xx or transport
\* error) leaves isLoading false, and the form can be submitted again: the
\* Button is enabled as soon as the four fields are set.
C3_CompletionClearsLoading ==
    last.op = "settle" => ~isLoading /\ (AllFieldsSet => ~SubmitDisabled)

\* A fetch was rejected (no response) and the form is out of the loading
\* state with the Button enabled.
C3_Witness ==
    /\ last.op = "settle" /\ last.outcome.net = "reject"
    /\ ~isLoading /\ ~SubmitDisabled

\* C4 as stated: after a non-2xx answer the error is exactly the body's
\* detail when the body is JSON with a detail member, and the fallback when
\* the body cannot be parsed.
C4_DetailExactly ==
    (last.op = "settle" /\ last.outcome.net = "notok") =>
        /\ (last.outcome.json = "object" /\ last.outcome.detail # Null)
              => error = last.outcome.detail
        /\ last.outcome.json = "unparsable" => error = Some(MSG_FALLBACK)

\* C4 as amended: the error is exactly the detail when the detail is a
\* non-empty string, and the fallback when the body cannot be parsed or the
\* detail is the empty string.
C4_NonEmptyDetailExactly ==
    (last.op = "settle" /\ last.outcome.net = "notok") =>
        /\ (last.outcome.json = "object" /\ last.outcome.detail # Null
            /\ last.outcome.detail # Some(""))
              => error = last.outcome.detail
        /\ (last.outcome.json = "object" /\ last.outcome.detail = Some(""))
              => error = Some(MSG_FALLBACK)
        /\ last.outcome.json = "unparsable" => error = Some(MSG_FALLBACK)

\* The endpoint answered non-2xx with {"detail":"no route found"} and that
\* text is the error shown.
C4_Witness ==
    /\ last.op = "settle"
    /\ last.outcome = Response("notok", "object", Some("no route found"))
    /\ error = Some("no route found")

\* C5: after every failed search (fetch rejected, or a non-2xx answer) the
\* error is the server-provided detail or the fallback, never another text.
C5_DetailOrFallbackOnly ==
    (last.op = "settle" /\ last.outcome.net \in {"reject", "notok"}) =>
        \/ error = Some(MSG_FALLBACK)
        \/ last.outcome.detail # Null /\ error = last.outcome.detail

\* Whole days from the request's start_date to its end_date.
RequestDays(request) == DayNumber(request.end_date) - DayNumber(request.start_date)

\* C6: in every request sent, trip_nights when present is a non-negative
\* integer not above the days between start_date and end_date.
C6_TripNightsWithinRange ==
    \A i \in 1..Len(pending) :
        LET request == pending[i].request
        IN  request.trip_nights # Null =>
                /\ request.trip_nights[1] >= 0
                /\ request.trip_nights[1] <= RequestDays(request)

\* C7: in every request sent, end_date does not precede start_date.
C7_EndNotBeforeStart ==
    \A i \in 1..Len(pending) : RequestDays(pending[i].request) >= 0

\* C8: once a start-date or end-date change has taken effect with both
\* dates set and trip nights set, the stored trip nights do not exceed the
\* maximum computed from the new dates.
C8_ClampReapplied ==
    (last.op \in {"startDate", "endDate"}
       /\ startDate # Null /\ endDate # Null /\ tripNights # Null)
      => ~Exceeds(parseInt(tripNights), calculateMaxNights)

\* The number a trip-nights text denotes, as far as the claims need it:
\* texts are the decimal numbers an <input type="number"> delivers.
IsNumericText(v) == v # Null /\ IsDigit(v[Len(v)])

HasNonZeroDigit(v, from) ==
    \E k \in from..Len(v) : IsDigit(v[k]) /\ v[k] # "0"

FractionStart(v) ==
    IF \E k \in 1..Len(v) : v[k] = "."
    THEN CHOOSE k \in 1..Len(v) : v[k] = "."
    ELSE Len(v) + 1

IsNegativeText(v) == IsNumericText(v) /\ v[1] = "-" /\ HasNonZeroDigit(v, 1)

\* The number v denotes is greater than the integer n >= 0.
TextExceeds(v, n) ==
    /\ IsNumericText(v) /\ v[1] # "-"
    /\ \/ parseInt(v).val > n
       \/ parseInt(v).val = n /\ HasNonZeroDigit(v, FractionStart(v))

\* C9: for every trip-nights input whose value exceeds the maximum computed
\* from the current dates (a maximum of 0 included), handleTripNightsChange
\* stores the maximum and sets the bound-exceeded message.
C9_ClampToMax ==
    [][\A v \in TripNightsInputs :
          (handleTripNightsChange(v) /\ TextExceeds(v, calculateMaxNights)) =>
              /\ tripNights' = toString(calculateMaxNights)
              /\ error' = Some(MaxNightsMessage(calculateMaxNights))]_vars

\* C10: for every non-numeric or negative trip-nights input,
\* handleTripNightsChange empties the stored value and gives the error field
\* no message.
C10_InvalidInputEmpties ==
    [][\A v \in TripNightsInputs :
          (handleTripNightsChange(v) /\ (~IsNumericText(v) \/ IsNegativeText(v))) =>
              /\ tripNights' = Null
              /\ error' \in {error, Null}]_vars

\* Days counted one at a time on the calendar, independently of the epoch
\* arithmetic of DaysFromCivil.
DateBefore(a, b) ==
    \/ a[1] < b[1]
    \/ a[1] = b[1] /\ a[2] < b[2]
    \/ a[1] = b[1] /\ a[2] = b[2] /\ a[3] < b[3]

RECURSIVE CountDays(_, _)
\* Days from date a to date b, for a not after b.
CountDays(a, b) == IF a = b THEN 0 ELSE 1 + CountDays(NextDay(a), b)

\* C11: with end_date on or after start_date calculateMaxNights is the whole
\* number of days between them; it is never negative, and it is 0 when a
\* date is unset or end_date precedes start_date.
C11_MaxNightsIsDayCount ==
    /\ calculateMaxNights >= 0
    /\ (startDate = Null \/ endDate = Null) => calculateMaxNights = 0
    /\ (startDate # Null /\ endDate # Null) =>
          calculateMaxNights =
              IF DateBefore(endDate, startDate) THEN 0
              ELSE CountDays(startDate, endDate)

\* handleTripNightsChange used the maximum of a range over the leap day:
\* 2024-02-28 to 2024-03-01 is 2 nights, and a larger input was clamped to it.
C11_Witness ==
    /\ startDate = <<2024, 2, 28>> /\ endDate = <<2024, 3, 1>>
    /\ last.op = "tripNights" /\ last.input = <<"3">>
    /\ tripNights = <<"2">>
    /\ error = Some(MaxNightsMessage(2))

\* C12: while the trip nights entered exceed the bound for the current
\* dates, a submit attempt sends no request.
C12_OverBoundBlocksSubmit ==
    [][(ClickSubmit /\ tripNights # Null
          /\ Exceeds(parseInt(tripNights), calculateMaxNights))
         => pending' = pending]_vars

\* Days from date a to date b on the calendar, negative when b is before a.
SignedDays(a, b) ==
    IF DateBefore(b, a) THEN 0 - CountDays(b, a) ELSE CountDays(a, b)

\* C13: for a response with segments the span shown is N nights and N+1
\* days, N the days from the first segment's date to the last one's; for an
\* empty segment list no span is shown.
C13_TripSpan ==
    rendered # Null =>
        IF Len(result.segments) > 0
        THEN LET n == SignedDays(result.segments[1].date,
                                 result.segments[Len(result.segments)].date)
             IN  rendered[1].span = Some([nights |-> n, days |-> n + 1])
        ELSE rendered[1].span = Null

\* Segments dated 2025-01-15 and 2025-01-20 are shown as 5 nights, 6 days.
C13_Witness ==
    /\ rendered # Null
    /\ result.segments = <<[date |-> <<2025, 1, 15>>], [date |-> <<2025, 1, 20>>]>>
    /\ rendered[1].span = Some([nights |-> 5, days |-> 6])

\* C14: when cheaper_than_direct is false or direct_cost is undefined, no
\* savings block is rendered, whatever the costs are.
C14_NoSavingsBlock ==
    (rendered # Null
       /\ (~result.cheaper_than_direct \/ result.direct_cost = Null))
      => rendered[1].savings.kind # "block"

\* A response with direct_cost 200000 above total_cost 164000 but the flag
\* false is rendered without a savings block.
C14_Witness ==
    /\ rendered # Null
    /\ ~result.cheaper_than_direct
    /\ result.direct_cost = Some(200000) /\ result.total_cost = 164000
    /\ rendered[1].savings = Nothing

\* The integer a formatted price denotes: the digits without the commas.
RECURSIVE StripCommas(_)
StripCommas(text) ==
    IF text = << >> THEN << >>
    ELSE IF text[1] = "," THEN StripCommas(Tail(text))
    ELSE <<text[1]>> \o StripCommas(Tail(text))

PriceValue(text) == parseInt(StripCommas(text)).val

\* C15: when cheaper_than_direct is true and direct_cost is present (any
\* non-negative integer), the savings block is rendered and the amount it
\* shows is direct_cost minus total_cost.
C15_SavingsBlockShown ==
    (rendered # Null
       /\ result.cheaper_than_direct /\ result.direct_cost # Null)
      => /\ rendered[1].savings.kind = "block"
         /\ PriceValue(rendered[1].savings.text)
              = result.direct_cost[1] - result.total_cost

\* Every way a fetch can settle.
Outcomes ==
    { Rejected(m) : m \in TransportMessages } \cup NotOkBodies \cup OkBodies

\* The departure, destination, startDate and endDate of a request.
ParamsOf(request) ==
    [ departure   |-> request.departure,
      destination |-> request.destination,
      startDate   |-> request.start_date,
      endDate     |-> request.end_date ]

\* C16: a successful response makes exactly one onSearchResult call, with
\* the fields of the request that produced it, whatever the form holds by
\* then; a failed search makes none.
C16_ParamsAreTheRequests ==
    [][\A i \in 1..Len(pending) : \A o \in Outcomes :
          handleSearchSettle(i, o) =>
              IF o.net = "ok" /\ o.json = "object"
              THEN /\ last'.calls = 1
                   /\ delivered' = Some(ParamsOf(pending[i].request))
              ELSE /\ last'.calls = 0
                   /\ delivered' = delivered]_vars

\* A result was handed over although the destination and the start date
\* had been changed while its request was pending.
C16_Witness ==
    /\ last.op = "settle" /\ last.calls = 1
    /\ delivered # Null /\ toAirport # Null
    /\ delivered[1].destination # toAirport[1]
    /\ delivered[1].startDate # startDate

====
